---- MODULE Spec2Model ----
(***************************************************************************)
(* Model of packages/fuels-core/src/types/transaction_builders.rs:         *)
(* ScriptTransactionBuilder and CreateTransactionBuilder, their signature  *)
(* registry (UnresolvedSignatures), the input resolver, the gas estimation *)
(* through a DryRunner and the generation of the missing witnesses.        *)
(*                                                                         *)
(* An Option<T> is modelled as a sequence of length 0 (None) or 1 (Some).  *)
(* One builder is configured (pc = "config"), then build consumes it.  A   *)
(* script build that has to estimate gas is suspended at the provider call *)
(* (pc = "dry_run") until the provider answers.  pc = "done" is the state  *)
(* after build has returned.                                               *)
(*                                                                         *)
(* Spec configures a builder step by step and builds it.  SpecCreate is a  *)
(* create builder that is given storage slots, SpecInputs builds builders  *)
(* with every kind of input, SpecFee probes the fee of a builder with      *)
(* fee_checked_from_tx before it is built.                                 *)
(***************************************************************************)
EXTENDS Integers, Sequences, FiniteSets, TLC

VARIABLES
    kind,                  \* "script" (ScriptTransactionBuilder) or "create"
    gas_limit,             \* ScriptTransactionBuilder.gas_limit : Option<u64>
    script,                \* ScriptTransactionBuilder.script : Vec<u8>
    inputs,                \* builder.inputs : Vec<Input>
    witnesses,             \* builder.witnesses : Vec<Witness>
    unresolved_signatures, \* builder.unresolved_signatures
    network_info,          \* builder.network_info
    pc,                    \* "config", "dry_run" or "done"
    tx,                    \* the local `tx` of a suspended build : Option
    returned,              \* Ok(transaction) of build : Option
    error,                 \* Err(e) of build : Option
    dry_run_calls,         \* the transactions handed to the provider, in order
    dry_run_responses,     \* the answers of the provider, in order
    panicked,              \* build aborted by a panic instead of returning
    registrations,         \* history: the add_unresolved_signature calls
    storage_slots,         \* CreateTransactionBuilder.storage_slots
    slots_given,           \* history: the argument of with_storage_slots
    resolution,            \* history: what resolve_fuel_inputs did : Option
    estimation_exits,      \* history: the transactions as the returns of
                           \* set_script_gas_limit_to_gas_used left them
    probe_snapshot,        \* Some(builder) while fee_checked_from_tx runs on
                           \* that builder, and the build is that of its clone
    probe_results          \* history: what the calls of fee_checked_from_tx
                           \* returned and what the builds of their clones saw

vars == <<kind, gas_limit, script, inputs, witnesses, unresolved_signatures,
          network_info, pc, tx, returned, error, dry_run_calls,
          dry_run_responses, panicked, registrations, storage_slots,
          slots_given, resolution, estimation_exits, probe_snapshot,
          probe_results>>

builder_vars == <<kind, gas_limit, script, inputs, witnesses,
                  unresolved_signatures, network_info, registrations,
                  storage_slots, slots_given>>

build_vars == <<pc, tx, returned, error, dry_run_calls, dry_run_responses,
                panicked, resolution, estimation_exits>>

probe_vars == <<probe_snapshot, probe_results>>

----------------------------------------------------------------------------
(* Bounds of the model *)

\* largest number of declarative inputs of a builder
MaxInputs == 2
\* largest number of add_unresolved_signature calls on one builder
MaxKeys == 2
\* largest number of storage slots given to with_storage_slots
MaxSlots == 3
\* largest number of fee_checked_from_tx calls on one builder
MaxProbes == 1

----------------------------------------------------------------------------
(* Program constants *)

\* num_witnesses: "tx can not have more than 256 witnesses"
MAX_WITNESSES == 256
\* u8, the type of a witness index
U8_MODULUS == 256
\* amount of the temporary coin pushed for the dry run
DRY_RUN_COIN_AMOUNT == 1000000000

----------------------------------------------------------------------------
(* Values *)

None == <<>>
Some(v) == <<v>>
IsSome(o) == Len(o) = 1
Unwrap(o) == o[1]

Max(a, b) == IF a >= b THEN a ELSE b

Addresses == {"a1", "a2"}
DefaultAddress == "default"
SecretKeys == {"k1", "k2"}

(* CoinType: Coin{owner, amount} or Message{recipient, amount, data} *)
Coin(owner) ==
    [type |-> "Coin", owner |-> owner, recipient |-> "none",
     amount |-> 1, data |-> <<>>]
Message(recipient, data) ==
    [type |-> "Message", owner |-> "none", recipient |-> recipient,
     amount |-> 1, data |-> data]
NoResource ==
    [type |-> "None", owner |-> "none", recipient |-> "none",
     amount |-> 0, data |-> <<>>]

(* Input: ResourceSigned{resource}, ResourcePredicate{resource, code, data},
   Contract{..}.  `data` is an UnresolvedBytes. *)
ResourceSigned(resource) ==
    [variant |-> "ResourceSigned", resource |-> resource,
     code |-> <<>>, data |-> <<>>]
ResourcePredicate(resource, code, data) ==
    [variant |-> "ResourcePredicate", resource |-> resource,
     code |-> code, data |-> data]
ContractInput ==
    [variant |-> "Contract", resource |-> NoResource,
     code |-> <<>>, data |-> <<>>]

(* A word of an UnresolvedBytes is an inline value or a pointer, which
   resolve turns into an address relative to the start of the data. *)
POINTER == -1
UnresolvedBytesResolve(data, start_addr) ==
    [i \in 1..Len(data) |->
        IF data[i] = POINTER THEN start_addr + Len(data) ELSE data[i]]

(* Witness: bytes.  A signature is determined by the key and the message. *)
Witness(tag) == [tag |-> tag, key |-> "none", msg |-> <<>>]
DefaultWitness == Witness("default")
SignatureSign(secret_key, message) ==
    [tag |-> "signature", key |-> secret_key, msg |-> <<message>>]

----------------------------------------------------------------------------
(* Inputs of the operations *)

ExplicitWitnesses(n) == [i \in 1..n |-> Witness("explicit")]

\* the witness vectors given to with_witnesses: two distinct witnesses, and
\* vectors around the limit of num_witnesses
WitnessLists ==
    {<<>>, <<Witness("wA"), Witness("wB")>>}
    \cup {ExplicitWitnesses(n) :
            n \in {MAX_WITNESSES - MaxKeys + 1, MAX_WITNESSES}}

DeclarativeInputs ==
    {ResourceSigned(Coin("a1")),
     ResourceSigned(Message("a1", <<>>)),
     ResourceSigned(Message("a2", <<42>>)),
     ResourcePredicate(Coin("a1"), <<1>>, <<7, POINTER>>),
     ContractInput}

\* the sequences over S of length at most n
SeqsUpTo(S, n) == UNION {[1..m -> S] : m \in 0..n}

Scripts == {<<>>, <<36>>}
GasLimits == {7}
GasUsed == {3, 9}
ProviderErrors == {"provider error"}
NetworkInfos ==
    {[max_gas_per_tx |-> 1000, min_gas_price |-> 0, chain_id |-> 0]}

----------------------------------------------------------------------------
(* Serialized sizes used for the data offsets (fuels-core offsets module and
   fuel-tx).  Only their shape matters here: fixed sizes for signed coins and
   contracts, sizes that grow with the padded payload and code otherwise. *)

WORD_SIZE == 8
PaddedLen(n) == ((n + WORD_SIZE - 1) \div WORD_SIZE) * WORD_SIZE
INPUT_COIN_FIXED_SIZE == 176
INPUT_MESSAGE_FIXED_SIZE == 160
INPUT_CONTRACT_SIZE == 168
BASE_OFFSET_SCRIPT == 10368
BASE_OFFSET_CREATE == 10400
CoinSignedDataOffset == INPUT_COIN_FIXED_SIZE
MessageSignedDataOffset(message_data_len) ==
    INPUT_MESSAGE_FIXED_SIZE + PaddedLen(message_data_len)
CoinPredicateDataOffset(code_len) ==
    INPUT_COIN_FIXED_SIZE + PaddedLen(code_len)
MessagePredicateDataOffset(message_data_len, code_len) ==
    INPUT_MESSAGE_FIXED_SIZE + PaddedLen(message_data_len) + PaddedLen(code_len)
ContractInputOffset == INPUT_CONTRACT_SIZE

----------------------------------------------------------------------------
(* fuel_tx::Input, the native inputs *)

FuelInput(variant, owner, recipient, amount, witness_index, data, code, pd) ==
    [variant |-> variant, owner |-> owner, recipient |-> recipient,
     amount |-> amount, witness_index |-> witness_index, data |-> data,
     predicate |-> code, predicate_data |-> pd]

\* create_coin_input
CreateCoinInput(coin, witness_index) ==
    FuelInput("CoinSigned", coin.owner, "none", coin.amount, witness_index,
              <<>>, <<>>, <<>>)

\* create_coin_message_input
CreateCoinMessageInput(message, witness_index) ==
    IF message.data = <<>>
    THEN FuelInput("MessageCoinSigned", "none", message.recipient,
                   message.amount, witness_index, <<>>, <<>>, <<>>)
    ELSE FuelInput("MessageDataSigned", "none", message.recipient,
                   message.amount, witness_index, message.data, <<>>, <<>>)

\* create_coin_predicate
CreateCoinPredicate(coin, code, predicate_data) ==
    FuelInput("CoinPredicate", coin.owner, "none", coin.amount, 0,
              <<>>, code, predicate_data)

\* mutant: a message predicate is always given the data-bearing variant
CreateCoinMessagePredicateAlwaysData(message, code, predicate_data) ==
    FuelInput("MessageDataPredicate", "none", message.recipient,
              message.amount, 0, message.data, code, predicate_data)

\* create_coin_message_predicate
CreateCoinMessagePredicate(message, code, predicate_data) ==
    IF message.data = <<>>
    THEN FuelInput("MessageCoinPredicate", "none", message.recipient,
                   message.amount, 0, <<>>, code, predicate_data)
    ELSE FuelInput("MessageDataPredicate", "none", message.recipient,
                   message.amount, 0, message.data, code, predicate_data)

\* FuelInput::contract
FuelContractInput ==
    FuelInput("Contract", "none", "none", 0, 0, <<>>, <<>>, <<>>)

\* the temporary coin of set_script_gas_limit_to_gas_used
DryRunCoin ==
    FuelInput("CoinSigned", DefaultAddress, "none", DRY_RUN_COIN_AMOUNT, 0,
              <<>>, <<>>, <<>>)

----------------------------------------------------------------------------
(* UnresolvedSignatures *)

EmptySignatures ==
    [addr_idx_offset_map |-> [a \in {} |-> 0], secret_keys |-> <<>>]

\* mutant: an entry that exists is kept (entry().or_insert)
MapInsertKeepsFirst(m, k, v) ==
    [a \in DOMAIN m \cup {k} |-> IF a \in DOMAIN m THEN m[a] ELSE v]

\* HashMap::insert: the entry of `k` is added or overwritten
MapInsert(m, k, v) ==
    [a \in DOMAIN m \cup {k} |-> IF a = k THEN v ELSE m[a]]

\* add_unresolved_signature
AddSignature(sigs, owner, secret_key) ==
    LET index_offset == Len(sigs.secret_keys)
    IN [addr_idx_offset_map |->
            MapInsert(sigs.addr_idx_offset_map, owner, index_offset),
        secret_keys |-> Append(sigs.secret_keys, secret_key)]

----------------------------------------------------------------------------
(* The input resolver.  A Result<FuelInput> is [ok, input, err]; the mutable
   data_offset is returned with it, and so are the offsets handed to
   UnresolvedBytes::resolve (`resolves`) and the addresses looked up in the
   registry (`lookups`), in the order of the calls. *)

ErrMissingCoin == "signature missing for coin"
ErrMissingMessage == "signature missing for message"
ErrTooManyWitnesses == "tx can not have more than 256 witnesses"

AsU8(n) == n % U8_MODULUS
AddU8(a, b) == (a + b) % U8_MODULUS

\* mutant: the explicit witnesses are not counted
WitnessIndexWithoutExplicit(num_witnesses, witness_idx_offset) ==
    AsU8(witness_idx_offset)

\* the witness index given to a signed input
WitnessIndex(num_witnesses, witness_idx_offset) ==
    AddU8(num_witnesses, AsU8(witness_idx_offset))

\* mutant: the accumulator is set to the size of the input, not advanced by it
ResolveSignedResourceAssigns(resource, data_offset, num_witnesses, sigs) ==
    IF resource.type = "Coin"
    THEN LET off == CoinSignedDataOffset
             owner == resource.owner
         IN IF owner \in DOMAIN sigs.addr_idx_offset_map
            THEN [ok |-> TRUE, err |-> "",
                  input |-> CreateCoinInput(resource,
                      WitnessIndex(num_witnesses,
                                   sigs.addr_idx_offset_map[owner])),
                  data_offset |-> off,
                  resolves |-> <<>>, lookups |-> <<owner>>]
            ELSE [ok |-> FALSE, err |-> ErrMissingCoin,
                  input |-> FuelContractInput, data_offset |-> off,
                  resolves |-> <<>>, lookups |-> <<owner>>]
    ELSE LET off == MessageSignedDataOffset(Len(resource.data))
             recipient == resource.recipient
         IN IF recipient \in DOMAIN sigs.addr_idx_offset_map
            THEN [ok |-> TRUE, err |-> "",
                  input |-> CreateCoinMessageInput(resource,
                      WitnessIndex(num_witnesses,
                                   sigs.addr_idx_offset_map[recipient])),
                  data_offset |-> off,
                  resolves |-> <<>>, lookups |-> <<recipient>>]
            ELSE [ok |-> FALSE, err |-> ErrMissingMessage,
                  input |-> FuelContractInput, data_offset |-> off,
                  resolves |-> <<>>, lookups |-> <<recipient>>]

\* resolve_signed_resource
ResolveSignedResource(resource, data_offset, num_witnesses, sigs) ==
    IF resource.type = "Coin"
    THEN LET off == data_offset + CoinSignedDataOffset
             owner == resource.owner
         IN IF owner \in DOMAIN sigs.addr_idx_offset_map
            THEN [ok |-> TRUE, err |-> "",
                  input |-> CreateCoinInput(resource,
                      WitnessIndex(num_witnesses,
                                   sigs.addr_idx_offset_map[owner])),
                  data_offset |-> off,
                  resolves |-> <<>>, lookups |-> <<owner>>]
            ELSE [ok |-> FALSE, err |-> ErrMissingCoin,
                  input |-> FuelContractInput, data_offset |-> off,
                  resolves |-> <<>>, lookups |-> <<owner>>]
    ELSE LET off == data_offset + MessageSignedDataOffset(Len(resource.data))
             recipient == resource.recipient
         IN IF recipient \in DOMAIN sigs.addr_idx_offset_map
            THEN [ok |-> TRUE, err |-> "",
                  input |-> CreateCoinMessageInput(resource,
                      WitnessIndex(num_witnesses,
                                   sigs.addr_idx_offset_map[recipient])),
                  data_offset |-> off,
                  resolves |-> <<>>, lookups |-> <<recipient>>]
            ELSE [ok |-> FALSE, err |-> ErrMissingMessage,
                  input |-> FuelContractInput, data_offset |-> off,
                  resolves |-> <<>>, lookups |-> <<recipient>>]

\* mutant: the data is resolved before the accumulator is advanced by the
\* header of the predicate
ResolvePredicateResourceBeforeHeader(resource, code, data, data_offset) ==
    LET header == IF resource.type = "Coin"
                  THEN CoinPredicateDataOffset(Len(code))
                  ELSE MessagePredicateDataOffset(Len(resource.data),
                                                  Len(code))
        resolved == UnresolvedBytesResolve(data, data_offset)
        input == IF resource.type = "Coin"
                 THEN CreateCoinPredicate(resource, code, resolved)
                 ELSE CreateCoinMessagePredicate(resource, code, resolved)
    IN [ok |-> TRUE, err |-> "", input |-> input,
        data_offset |-> data_offset + header + Len(resolved),
        resolves |-> <<data_offset>>, lookups |-> <<>>]

\* resolve_predicate_resource
ResolvePredicateResource(resource, code, data, data_offset) ==
    IF resource.type = "Coin"
    THEN LET off == data_offset + CoinPredicateDataOffset(Len(code))
             resolved == UnresolvedBytesResolve(data, off)
         IN [ok |-> TRUE, err |-> "",
             input |-> CreateCoinPredicate(resource, code, resolved),
             data_offset |-> off + Len(resolved),
             resolves |-> <<off>>, lookups |-> <<>>]
    ELSE LET off == data_offset
                    + MessagePredicateDataOffset(Len(resource.data), Len(code))
             resolved == UnresolvedBytesResolve(data, off)
         IN [ok |-> TRUE, err |-> "",
             input |-> CreateCoinMessagePredicate(resource, code, resolved),
             data_offset |-> off + Len(resolved),
             resolves |-> <<off>>, lookups |-> <<>>]

\* the closure of resolve_fuel_inputs: one input
ResolveInput(input, data_offset, num_witnesses, sigs) ==
    CASE input.variant = "ResourceSigned" ->
            ResolveSignedResource(input.resource, data_offset, num_witnesses,
                                  sigs)
      [] input.variant = "ResourcePredicate" ->
            ResolvePredicateResource(input.resource, input.code, input.data,
                                     data_offset)
      [] OTHER ->
            [ok |-> TRUE, err |-> "", input |-> FuelContractInput,
             data_offset |-> data_offset + ContractInputOffset,
             resolves |-> <<>>, lookups |-> <<>>]

\* what the closure did with one input: the accumulator before and after it
TraceEntry(data_offset, r) ==
    [before |-> data_offset, after |-> r.data_offset,
     resolves |-> r.resolves, lookups |-> r.lookups]

\* mutant: an input that fails to resolve is left out (filter_map)
RECURSIVE ResolveFromSkipping(_, _, _, _, _, _, _)
ResolveFromSkipping(ins, i, data_offset, num_witnesses, sigs, acc, trace) ==
    IF i > Len(ins)
    THEN [ok |-> TRUE, err |-> "", inputs |-> acc, trace |-> trace]
    ELSE LET r == ResolveInput(ins[i], data_offset, num_witnesses, sigs)
         IN ResolveFromSkipping(ins, i + 1, r.data_offset, num_witnesses, sigs,
                                IF r.ok THEN Append(acc, r.input) ELSE acc,
                                Append(trace, TraceEntry(data_offset, r)))

\* resolve_fuel_inputs: map over the inputs in order, collected into a
\* Result, which stops at the first Err.  `acc` is the inputs resolved so
\* far, `trace` what the closure did so far.
RECURSIVE ResolveFrom(_, _, _, _, _, _, _)
ResolveFrom(ins, i, data_offset, num_witnesses, sigs, acc, trace) ==
    IF i > Len(ins)
    THEN [ok |-> TRUE, err |-> "", inputs |-> acc, trace |-> trace]
    ELSE LET r == ResolveInput(ins[i], data_offset, num_witnesses, sigs)
         IN IF r.ok
            THEN ResolveFrom(ins, i + 1, r.data_offset, num_witnesses, sigs,
                             Append(acc, r.input),
                             Append(trace, TraceEntry(data_offset, r)))
            ELSE [ok |-> FALSE, err |-> r.err, inputs |-> <<>>,
                  trace |-> Append(trace, TraceEntry(data_offset, r))]

ResolveFuelInputs(ins, data_offset, num_witnesses, sigs) ==
    ResolveFrom(ins, 1, data_offset, num_witnesses, sigs, <<>>, <<>>)

\* mutant: the inputs are resolved before the witnesses are counted
ResolveThenCountWitnesses(num_witnesses, resolved) ==
    IF ~resolved.ok
    THEN [failed |-> TRUE, err |-> resolved.err,
          resolution |-> Some(resolved.trace)]
    ELSE IF ~num_witnesses.ok
    THEN [failed |-> TRUE, err |-> num_witnesses.err,
          resolution |-> Some(resolved.trace)]
    ELSE [failed |-> FALSE, err |-> "", resolution |-> Some(resolved.trace)]

\* mutant: the two `?` are dropped, the build goes on after either error
CountWitnessesThenResolveUnchecked(num_witnesses, resolved) ==
    [failed |-> FALSE, err |-> "", resolution |-> Some(resolved.trace)]

\* build: the `?` on num_witnesses returns before resolve_fuel_tx_provider
\* (resolve_fuel_tx) and with it resolve_fuel_inputs is called
CountWitnessesThenResolve(num_witnesses, resolved) ==
    IF ~num_witnesses.ok
    THEN [failed |-> TRUE, err |-> num_witnesses.err, resolution |-> None]
    ELSE IF ~resolved.ok
    THEN [failed |-> TRUE, err |-> resolved.err,
          resolution |-> Some(resolved.trace)]
    ELSE [failed |-> FALSE, err |-> "", resolution |-> Some(resolved.trace)]

----------------------------------------------------------------------------
(* Storage slots.  A StorageSlot is a (key, value) pair that is ordered by its
   key; Vec::sort is a stable sort. *)

\* StorageSlot::SLOT_SIZE: two 32-byte words
SLOT_SIZE == 64

StorageSlot(key, value) == [key |-> key, value |-> value]

\* insert slot into a sorted list, after the slots whose key is not greater
RECURSIVE InsertSlot(_, _)
InsertSlot(slot, sorted) ==
    IF sorted = <<>> THEN <<slot>>
    ELSE IF slot.key < Head(sorted).key THEN <<slot>> \o sorted
    ELSE <<Head(sorted)>> \o InsertSlot(slot, Tail(sorted))

\* slots[1..n], sorted
RECURSIVE SortPrefix(_, _)
SortPrefix(slots, n) ==
    IF n = 0 THEN <<>> ELSE InsertSlot(slots[n], SortPrefix(slots, n - 1))

\* mutant: the slots are stored as they were given
SortUnsorted(slots) == slots

\* storage_slots.sort()
Sort(slots) == SortPrefix(slots, Len(slots))

----------------------------------------------------------------------------
(* Policies and transactions *)

\* constants::DEFAULT_SCRIPT_WITNESS_LIMIT and DEFAULT_CREATE_WITNESS_LIMIT,
\* kept symbolic
DEFAULT_SCRIPT_WITNESS_LIMIT == "DEFAULT_SCRIPT_WITNESS_LIMIT"
DEFAULT_CREATE_WITNESS_LIMIT == "DEFAULT_CREATE_WITNESS_LIMIT"

\* generate_shared_fuel_policies, for a builder whose max_fee, maturity and
\* gas_price are those of `new`, followed by the WitnessLimit of the caller
Policies(info, witness_limit) ==
    [max_fee |-> None, maturity |-> Some(0),
     gas_price |-> Some(info.min_gas_price),
     witness_limit |-> Some(witness_limit)]

\* Policies::size_dynamic: one word per policy that is set
PoliciesSizeDynamic(policies) ==
    WORD_SIZE * Cardinality({k \in DOMAIN policies : IsSome(policies[k])})

\* FuelTransaction::script and FuelTransaction::create
FuelTx(type, script_gas_limit, script_bytes, policies, slots, ins, wits) ==
    [type |-> type, script_gas_limit |-> script_gas_limit,
     script |-> script_bytes, policies |-> policies,
     storage_slots |-> slots, inputs |-> ins, witnesses |-> wits]

\* UniqueIdentifier::id: the hash of the transaction without its witnesses
TxId(t, chain_id) ==
    [chain_id |-> chain_id, type |-> t.type,
     script_gas_limit |-> t.script_gas_limit, script |-> t.script,
     policies |-> t.policies, storage_slots |-> t.storage_slots,
     inputs |-> t.inputs]

\* Chargeable::max_gas: the gas of the transaction other than its execution
TxMaxGas(t) == 10 * (1 + Len(t.inputs)) + Len(t.witnesses)

\* mutant: only the first input is looked at
IsUsingPredicatesFirstOnly(ins) ==
    Len(ins) > 0 /\ ins[1].variant = "ResourcePredicate"

\* is_using_predicates
IsUsingPredicates(ins) ==
    \E i \in 1..Len(ins) : ins[i].variant = "ResourcePredicate"

\* mutant: the limit is compared with >= instead of >
NumWitnessesOffByOne(wits, sigs) ==
    LET num_witnesses == Len(wits)
    IN IF num_witnesses + Len(sigs.secret_keys) >= MAX_WITNESSES
       THEN [ok |-> FALSE, err |-> ErrTooManyWitnesses, value |-> 0]
       ELSE [ok |-> TRUE, err |-> "", value |-> AsU8(num_witnesses)]

\* num_witnesses: Result<u8>
NumWitnesses(wits, sigs) ==
    LET num_witnesses == Len(wits)
    IN IF num_witnesses + Len(sigs.secret_keys) > MAX_WITNESSES
       THEN [ok |-> FALSE, err |-> ErrTooManyWitnesses, value |-> 0]
       ELSE [ok |-> TRUE, err |-> "", value |-> AsU8(num_witnesses)]

\* create_dry_run_witnesses
CreateDryRunWitnesses(num_witnesses, sigs) ==
    LET unresolved_witnesses_len == Cardinality(DOMAIN sigs.addr_idx_offset_map)
    IN [i \in 1..Max(num_witnesses + unresolved_witnesses_len, 1) |->
            DefaultWitness]

\* generate_missing_witnesses
GenerateMissingWitnesses(id, sigs) ==
    [i \in 1..Len(sigs.secret_keys) |-> SignatureSign(sigs.secret_keys[i], id)]

\* ScriptTransactionBuilder::base_offset, with the script_data of `new`
ScriptBaseOffset(script_bytes) ==
    BASE_OFFSET_SCRIPT + PaddedLen(0) + PaddedLen(Len(script_bytes))

\* CreateTransactionBuilder::base_offset
CreateBaseOffset == BASE_OFFSET_CREATE

\* mutant: the explicit gas limit is not looked at
GasLimitBranchAlwaysEstimate(has_no_code, limit) ==
    IF has_no_code THEN "zero" ELSE "estimate"

\* mutant: the explicit gas limit is looked at before the script
GasLimitBranchExplicitFirst(has_no_code, limit) ==
    IF IsSome(limit) THEN "explicit"
    ELSE IF has_no_code THEN "zero"
    ELSE "estimate"

\* resolve_fuel_tx_provider, lines 413-426: which branch sets the gas limit
GasLimitBranch(has_no_code, limit) ==
    IF has_no_code THEN "zero"
    ELSE IF IsSome(limit) THEN "explicit"
    ELSE "estimate"

\* mutant: the missing witnesses are appended to the witnesses of the dry run
ScriptFinalWitnessesExtend(t, wits, sigs, chain_id) ==
    t.witnesses \o GenerateMissingWitnesses(TxId(t, chain_id), sigs)

\* mutant: the id is computed before the gas limit is set
ScriptFinalWitnessesStaleId(t, wits, sigs, chain_id) ==
    wits \o GenerateMissingWitnesses(
                TxId([t EXCEPT !.script_gas_limit = 0], chain_id), sigs)

\* resolve_fuel_tx_provider, lines 428-432: the witnesses of the result
ScriptFinalWitnesses(t, wits, sigs, chain_id) ==
    wits \o GenerateMissingWitnesses(TxId(t, chain_id), sigs)

\* resolve_fuel_tx, lines 629-633
CreateFinalWitnesses(t, sigs, chain_id) ==
    t.witnesses \o GenerateMissingWitnesses(TxId(t, chain_id), sigs)

\* set_script_gas_limit_to_gas_used, line 358: the u64 subtraction.  When it
\* underflows, a build with overflow checks panics and one without wraps
\* around; a wrapped value x is written here as x - 2^64.
ProvisionalGasLimit(info, t) ==
    LET max_gas == TxMaxGas(t) + 1
    IN [value |-> (info.max_gas_per_tx \div 2) - max_gas,
        underflow |-> (info.max_gas_per_tx \div 2) < max_gas]

\* set_script_gas_limit_to_gas_used, lines 355-370: the transaction handed to
\* the provider
DryRunTx(t, provisional) ==
    [t EXCEPT !.script_gas_limit = provisional,
              !.inputs = Append(t.inputs, DryRunCoin)]

\* set_script_gas_limit_to_gas_used, line 377: remove the temporary coin
PopInput(t) ==
    [t EXCEPT !.inputs = SubSeq(t.inputs, 1, Len(t.inputs) - 1)]

\* set_script_gas_limit_to_gas_used, line 379
SetScriptGasLimit(t, limit) == [t EXCEPT !.script_gas_limit = limit]

\* mutant: the gas limit stays the provisional one
ApplyGasUsedKeepsProvisional(t, gas_used) == PopInput(t)

\* mutant: the temporary coin is not removed
ApplyGasUsedKeepsCoin(t, gas_used) == SetScriptGasLimit(t, gas_used)

\* set_script_gas_limit_to_gas_used, lines 376-379: after the provider has
\* answered Ok(gas_used)
ApplyGasUsed(t, gas_used) == SetScriptGasLimit(PopInput(t), gas_used)

\* set_script_gas_limit_to_gas_used, line 374: the `?` returns the error of
\* the provider, and the lines after it are not run
TxAfterDryRunErr(t) == t

\* ScriptTransaction / CreateTransaction
BuiltTransaction(t, is_using_predicates) ==
    [tx |-> t, is_using_predicates |-> is_using_predicates]

----------------------------------------------------------------------------
(* Initial state: ScriptTransactionBuilder::new / CreateTransactionBuilder::new *)

Init ==
    /\ kind \in {"script", "create"}
    /\ network_info \in NetworkInfos
    /\ gas_limit = None
    /\ script = <<>>
    /\ inputs = <<>>
    /\ witnesses = <<>>
    /\ unresolved_signatures = EmptySignatures
    /\ registrations = <<>>
    /\ pc = "config"
    /\ tx = None
    /\ returned = None
    /\ error = None
    /\ dry_run_calls = <<>>
    /\ dry_run_responses = <<>>
    /\ panicked = FALSE
    /\ storage_slots = <<>>
    /\ slots_given = <<>>
    /\ resolution = None
    /\ estimation_exits = <<>>
    /\ probe_snapshot = None
    /\ probe_results = <<>>

----------------------------------------------------------------------------
(* Configuration of the builder *)

\* add_unresolved_signature(owner, secret_key)
AddUnresolvedSignature(owner, secret_key) ==
    /\ pc = "config"
    /\ Len(unresolved_signatures.secret_keys) < MaxKeys
    /\ unresolved_signatures' =
           AddSignature(unresolved_signatures, owner, secret_key)
    /\ registrations' =
           Append(registrations, [owner |-> owner, secret_key |-> secret_key])
    /\ UNCHANGED <<kind, gas_limit, script, inputs, witnesses, network_info,
                   storage_slots, slots_given>>
    /\ UNCHANGED build_vars
    /\ UNCHANGED probe_vars

\* inputs_mut().push(input)
PushInput(input) ==
    /\ pc = "config"
    /\ Len(inputs) < MaxInputs
    /\ inputs' = Append(inputs, input)
    /\ UNCHANGED <<kind, gas_limit, script, witnesses, unresolved_signatures,
                   network_info, registrations, storage_slots,
                   slots_given>>
    /\ UNCHANGED build_vars
    /\ UNCHANGED probe_vars

\* with_witnesses(witnesses)
WithWitnesses(wits) ==
    /\ pc = "config"
    /\ witnesses' = wits
    /\ UNCHANGED <<kind, gas_limit, script, inputs, unresolved_signatures,
                   network_info, registrations, storage_slots,
                   slots_given>>
    /\ UNCHANGED build_vars
    /\ UNCHANGED probe_vars

\* ScriptTransactionBuilder::with_script(script)
WithScript(script_bytes) ==
    /\ pc = "config"
    /\ kind = "script"
    /\ script' = script_bytes
    /\ UNCHANGED <<kind, gas_limit, inputs, witnesses, unresolved_signatures,
                   network_info, registrations, storage_slots,
                   slots_given>>
    /\ UNCHANGED build_vars
    /\ UNCHANGED probe_vars

\* ScriptTransactionBuilder::with_gas_limit(gas_limit)
WithGasLimit(limit) ==
    /\ pc = "config"
    /\ kind = "script"
    /\ gas_limit' = Some(limit)
    /\ UNCHANGED <<kind, script, inputs, witnesses, unresolved_signatures,
                   network_info, registrations, storage_slots,
                   slots_given>>
    /\ UNCHANGED build_vars
    /\ UNCHANGED probe_vars

\* ScriptTransactionBuilder::with_tx_policies(tx_policies), for policies that
\* carry only a script_gas_limit: Option<u64>
WithTxPolicies(script_gas_limit) ==
    /\ pc = "config"
    /\ kind = "script"
    /\ gas_limit' = script_gas_limit
    /\ UNCHANGED <<kind, script, inputs, witnesses, unresolved_signatures,
                   network_info, registrations, storage_slots,
                   slots_given>>
    /\ UNCHANGED build_vars
    /\ UNCHANGED probe_vars

\* CreateTransactionBuilder::with_storage_slots(storage_slots)
WithStorageSlots(slots) ==
    /\ pc = "config"
    /\ kind = "create"
    /\ storage_slots' = Sort(slots)
    /\ slots_given' = slots
    /\ UNCHANGED <<kind, gas_limit, script, inputs, witnesses,
                   unresolved_signatures, network_info, registrations>>
    /\ UNCHANGED build_vars
    /\ UNCHANGED probe_vars

----------------------------------------------------------------------------
(* build *)

\* build returns Err(e)
ReturnErr(e) ==
    /\ pc' = "done"
    /\ error' = Some(e)
    /\ returned' = None
    /\ tx' = None

\* build returns Ok(transaction)
ReturnOk(t) ==
    /\ pc' = "done"
    /\ error' = None
    /\ returned' = Some(BuiltTransaction(t, IsUsingPredicates(inputs)))
    /\ tx' = None

\* ScriptTransactionBuilder::build up to its return or to the call of the
\* provider: num_witnesses, resolve_fuel_tx_provider and, on the estimate
\* branch, set_script_gas_limit_to_gas_used up to line 374
BuildScript ==
    /\ pc = "config"
    /\ kind = "script"
    /\ UNCHANGED builder_vars
    /\ UNCHANGED probe_vars
    /\ UNCHANGED <<dry_run_responses, estimation_exits>>
    /\ LET is_using_predicates == IsUsingPredicates(inputs)
           base_offset == IF is_using_predicates
                          THEN ScriptBaseOffset(script) ELSE 0
           num_witnesses == NumWitnesses(witnesses, unresolved_signatures)
           policies == Policies(network_info, DEFAULT_SCRIPT_WITNESS_LIMIT)
           has_no_code == script = <<>>
           dry_run_witnesses ==
               CreateDryRunWitnesses(num_witnesses.value, unresolved_signatures)
           resolved ==
               ResolveFuelInputs(inputs,
                                 base_offset + PoliciesSizeDynamic(policies),
                                 num_witnesses.value, unresolved_signatures)
           t == FuelTx("Script", 0, script, policies, <<>>, resolved.inputs,
                       dry_run_witnesses)
           branch == GasLimitBranch(has_no_code, gas_limit)
           final(u) ==
               [u EXCEPT !.witnesses =
                    ScriptFinalWitnesses(u, witnesses, unresolved_signatures,
                                         network_info.chain_id)]
           provisional == ProvisionalGasLimit(network_info, t)
           outcome == CountWitnessesThenResolve(num_witnesses, resolved)
       IN /\ resolution' = outcome.resolution
          /\ IF outcome.failed
             THEN /\ ReturnErr(outcome.err)
                  /\ UNCHANGED <<dry_run_calls, panicked>>
             ELSE IF branch = "zero"
             THEN /\ ReturnOk(final(SetScriptGasLimit(t, 0)))
                  /\ UNCHANGED <<dry_run_calls, panicked>>
             ELSE IF branch = "explicit"
             THEN /\ ReturnOk(final(SetScriptGasLimit(t, Unwrap(gas_limit))))
                  /\ UNCHANGED <<dry_run_calls, panicked>>
             ELSE \/ /\ provisional.underflow
                     /\ panicked' = TRUE
                     /\ pc' = "done"
                     /\ UNCHANGED <<tx, returned, error, dry_run_calls>>
                  \/ /\ pc' = "dry_run"
                     /\ tx' = Some(DryRunTx(t, provisional.value))
                     /\ dry_run_calls' =
                            Append(dry_run_calls,
                                   DryRunTx(t, provisional.value))
                     /\ UNCHANGED <<returned, error, panicked>>

\* the provider answers Ok(gas_used): set_script_gas_limit_to_gas_used from
\* line 376, then resolve_fuel_tx_provider from line 428 and build's return
DryRunOk(gas_used) ==
    /\ pc = "dry_run"
    /\ UNCHANGED builder_vars
    /\ UNCHANGED probe_vars
    /\ dry_run_responses' =
           Append(dry_run_responses,
                  [ok |-> TRUE, gas_used |-> gas_used, err |-> ""])
    /\ LET t == ApplyGasUsed(Unwrap(tx), gas_used)
       IN /\ estimation_exits' = Append(estimation_exits, t)
          /\ ReturnOk([t EXCEPT !.witnesses =
                          ScriptFinalWitnesses(t, witnesses,
                                               unresolved_signatures,
                                               network_info.chain_id)])
    /\ UNCHANGED <<dry_run_calls, panicked, resolution>>

\* mutant: the call of the provider is repeated after an error
DryRunErrRetries(e) ==
    /\ pc = "dry_run"
    /\ Len(dry_run_calls) < 3
    /\ UNCHANGED builder_vars
    /\ UNCHANGED probe_vars
    /\ dry_run_responses' =
           Append(dry_run_responses, [ok |-> FALSE, gas_used |-> 0, err |-> e])
    /\ dry_run_calls' = Append(dry_run_calls, Unwrap(tx))
    /\ UNCHANGED <<pc, tx, returned, error, panicked, resolution,
                   estimation_exits>>

\* the provider answers Err(e): the `?` of line 374 and of line 425 return it
DryRunErr(e) ==
    /\ pc = "dry_run"
    /\ UNCHANGED builder_vars
    /\ UNCHANGED probe_vars
    /\ dry_run_responses' =
           Append(dry_run_responses, [ok |-> FALSE, gas_used |-> 0, err |-> e])
    /\ estimation_exits' =
           Append(estimation_exits, TxAfterDryRunErr(Unwrap(tx)))
    /\ ReturnErr(e)
    /\ UNCHANGED <<dry_run_calls, panicked, resolution>>

\* CreateTransactionBuilder::build: num_witnesses and resolve_fuel_tx
BuildCreate ==
    /\ pc = "config"
    /\ kind = "create"
    /\ UNCHANGED builder_vars
    /\ UNCHANGED probe_vars
    /\ UNCHANGED <<dry_run_calls, dry_run_responses, panicked,
                   estimation_exits>>
    /\ LET is_using_predicates == IsUsingPredicates(inputs)
           base_offset == IF is_using_predicates THEN CreateBaseOffset ELSE 0
           num_witnesses == NumWitnesses(witnesses, unresolved_signatures)
           policies == Policies(network_info, DEFAULT_CREATE_WITNESS_LIMIT)
           storage_slots_offset == Len(storage_slots) * SLOT_SIZE
           resolved ==
               ResolveFuelInputs(inputs,
                                 base_offset + storage_slots_offset
                                     + PoliciesSizeDynamic(policies),
                                 num_witnesses.value, unresolved_signatures)
           t == FuelTx("Create", 0, <<>>, policies, storage_slots,
                       resolved.inputs, witnesses)
           outcome == CountWitnessesThenResolve(num_witnesses, resolved)
       IN /\ resolution' = outcome.resolution
          /\ IF outcome.failed
             THEN ReturnErr(outcome.err)
             ELSE ReturnOk([t EXCEPT !.witnesses =
                               CreateFinalWitnesses(t, unresolved_signatures,
                                                    network_info.chain_id)])

----------------------------------------------------------------------------
(* fee_checked_from_tx: the build of a clone of the builder.  The clone is a
   copy of every field, so while it is built the variables of the builder
   stand for it; the call returns once that build has returned. *)

\* the fields of the builder
Builder ==
    [kind |-> kind, gas_limit |-> gas_limit, script |-> script,
     inputs |-> inputs, witnesses |-> witnesses,
     unresolved_signatures |-> unresolved_signatures,
     network_info |-> network_info, storage_slots |-> storage_slots]

\* mutant: the clone shares the secret keys of the builder, and they are
\* zeroized (the Vec is cleared) when the clone is dropped
BuilderAfterProbeSharedKeys(builder) ==
    [builder EXCEPT !.unresolved_signatures.secret_keys = <<>>]

\* the builder behind `&self` once the clone (#[derive(Clone)]: a copy of
\* every field, the Vec of secret keys included) has been built and dropped
BuilderAfterProbe(builder) == builder

Probing == IsSome(probe_snapshot)

\* what fee_checked_from_tx can return after a build that returned Ok
FeeOutcomes == {"fee", "none", "estimate_predicates error"}

\* fee_checked_from_tx up to the call of build on self.clone()
FeeCheckedFromTx ==
    /\ pc = "config"
    /\ ~Probing
    /\ Len(probe_results) < MaxProbes
    /\ probe_snapshot' = Some(Builder)
    /\ UNCHANGED probe_results
    /\ UNCHANGED builder_vars
    /\ UNCHANGED build_vars

\* fee_checked_from_tx from the return of build: the `?`, estimate_predicates
\* and TransactionFee::checked_from_tx; the clone is gone and the builder can
\* be used again
FeeCheckedReturn(outcome) ==
    /\ pc = "done"
    /\ Probing
    /\ ~panicked
    /\ IsSome(returned)
           => \/ outcome \in {"fee", "none"}
              \/ Unwrap(returned).is_using_predicates
    /\ LET fee == IF IsSome(error) THEN Unwrap(error) ELSE outcome
           after == BuilderAfterProbe(Builder)
       IN /\ probe_results' =
                 Append(probe_results,
                        [builder |-> Unwrap(probe_snapshot), fee |-> fee,
                         returned |-> returned, error |-> error,
                         responses |-> dry_run_responses])
          /\ kind' = after.kind
          /\ gas_limit' = after.gas_limit
          /\ script' = after.script
          /\ inputs' = after.inputs
          /\ witnesses' = after.witnesses
          /\ unresolved_signatures' = after.unresolved_signatures
          /\ network_info' = after.network_info
          /\ storage_slots' = after.storage_slots
    /\ probe_snapshot' = None
    /\ pc' = "config"
    /\ tx' = None
    /\ returned' = None
    /\ error' = None
    /\ dry_run_calls' = <<>>
    /\ dry_run_responses' = <<>>
    /\ resolution' = None
    /\ estimation_exits' = <<>>
    /\ UNCHANGED <<panicked, registrations, slots_given>>

----------------------------------------------------------------------------

Next ==
    \/ \E owner \in Addresses, secret_key \in SecretKeys :
           AddUnresolvedSignature(owner, secret_key)
    \/ \E input \in DeclarativeInputs : PushInput(input)
    \/ \E wits \in WitnessLists : WithWitnesses(wits)
    \/ \E script_bytes \in Scripts : WithScript(script_bytes)
    \/ \E limit \in GasLimits : WithGasLimit(limit)
    \/ \E limit \in {None} \cup {Some(g) : g \in GasLimits} :
           WithTxPolicies(limit)
    \/ BuildScript
    \/ \E gas_used \in GasUsed : DryRunOk(gas_used)
    \/ \E e \in ProviderErrors : DryRunErr(e)
    \/ BuildCreate

Spec == Init /\ [][Next]_vars

----------------------------------------------------------------------------
(* A create builder that is given storage slots *)

\* slots with distinct keys, and two slots with the same key
Slots == {[key |-> 1, value |-> 0], [key |-> 2, value |-> 0],
          [key |-> 2, value |-> 1]}
SlotLists == SeqsUpTo(Slots, MaxSlots)

InitCreate ==
    /\ Init
    /\ kind = "create"

NextCreate ==
    \/ \E slots \in SlotLists : WithStorageSlots(slots)
    \/ \E input \in DeclarativeInputs : PushInput(input)
    \/ BuildCreate

SpecCreate == InitCreate /\ [][NextCreate]_vars

----------------------------------------------------------------------------
(* Builders with every kind of input: the builder has been configured with
   inputs (with_inputs), witnesses and one registered key, and is built. *)

\* signed and predicate resources, coins and messages with and without data;
\* the recipient a2 has no registered key
ResolvableInputs ==
    {ResourceSigned(Coin("a1")),
     ResourceSigned(Message("a1", <<>>)),
     ResourceSigned(Message("a1", <<42>>)),
     ResourceSigned(Message("a2", <<42>>)),
     ResourcePredicate(Coin("a1"), <<1>>, <<7, POINTER>>),
     ResourcePredicate(Message("a1", <<>>), <<1>>, <<POINTER>>),
     ResourcePredicate(Message("a1", <<42, 43>>), <<1, 2>>, <<>>),
     ContractInput}

InitInputs ==
    /\ kind \in {"script", "create"}
    /\ network_info \in NetworkInfos
    /\ gas_limit = None
    /\ script \in (IF kind = "script" THEN Scripts ELSE {<<>>})
    /\ inputs \in SeqsUpTo(ResolvableInputs, MaxInputs)
    /\ witnesses \in {<<>>, <<Witness("wA"), Witness("wB")>>}
    /\ unresolved_signatures = AddSignature(EmptySignatures, "a1", "k1")
    /\ registrations = <<[owner |-> "a1", secret_key |-> "k1"]>>
    /\ pc = "config"
    /\ tx = None
    /\ returned = None
    /\ error = None
    /\ dry_run_calls = <<>>
    /\ dry_run_responses = <<>>
    /\ panicked = FALSE
    /\ storage_slots = <<>>
    /\ slots_given = <<>>
    /\ resolution = None
    /\ estimation_exits = <<>>
    /\ probe_snapshot = None
    /\ probe_results = <<>>

NextInputs ==
    \/ BuildScript
    \/ \E gas_used \in GasUsed : DryRunOk(gas_used)
    \/ \E e \in ProviderErrors : DryRunErr(e)
    \/ BuildCreate

SpecInputs == InitInputs /\ [][NextInputs]_vars

----------------------------------------------------------------------------
(* Builders whose fee is probed with fee_checked_from_tx before they are
   built *)

\* the registry after the calls `regs` of add_unresolved_signature
RECURSIVE RegistryAfter(_, _)
RegistryAfter(regs, n) ==
    IF n = 0 THEN EmptySignatures
    ELSE AddSignature(RegistryAfter(regs, n - 1), regs[n].owner,
                      regs[n].secret_key)

ProbedInputs ==
    {ResourceSigned(Coin("a1")),
     ResourcePredicate(Coin("a1"), <<1>>, <<7, POINTER>>)}

ProbedRegistrations ==
    {[owner |-> "a1", secret_key |-> "k1"],
     [owner |-> "a2", secret_key |-> "k2"]}

InitFee ==
    /\ kind \in {"script", "create"}
    /\ network_info \in NetworkInfos
    /\ gas_limit = None
    /\ script \in (IF kind = "script" THEN Scripts ELSE {<<>>})
    /\ inputs \in SeqsUpTo(ProbedInputs, MaxInputs)
    /\ witnesses = <<Witness("wA")>>
    /\ registrations \in SeqsUpTo(ProbedRegistrations, MaxKeys)
    /\ unresolved_signatures =
           RegistryAfter(registrations, Len(registrations))
    /\ pc = "config"
    /\ tx = None
    /\ returned = None
    /\ error = None
    /\ dry_run_calls = <<>>
    /\ dry_run_responses = <<>>
    /\ panicked = FALSE
    /\ storage_slots = <<>>
    /\ slots_given = <<>>
    /\ resolution = None
    /\ estimation_exits = <<>>
    /\ probe_snapshot = None
    /\ probe_results = <<>>

NextFee ==
    \/ FeeCheckedFromTx
    \/ \E outcome \in FeeOutcomes : FeeCheckedReturn(outcome)
    \/ BuildScript
    \/ \E gas_used \in GasUsed : DryRunOk(gas_used)
    \/ \E e \in ProviderErrors : DryRunErr(e)
    \/ BuildCreate

SpecFee == InitFee /\ [][NextFee]_vars

----------------------------------------------------------------------------
(* Script builders on networks whose max_gas_per_tx is small, so that half of
   it is around the max_gas of the transaction *)

\* max_gas_per_tx / 2 is 12, the max_gas + 1 of a transaction without inputs,
\* or 15, or far above
SmallNetworkInfos ==
    {[max_gas_per_tx |-> g, min_gas_price |-> 0, chain_id |-> 0] :
        g \in {24, 30, 1000}}

InitGas ==
    /\ kind = "script"
    /\ network_info \in SmallNetworkInfos
    /\ gas_limit = None
    /\ script = <<36>>
    /\ inputs = <<>>
    /\ witnesses = <<>>
    /\ unresolved_signatures = EmptySignatures
    /\ registrations = <<>>
    /\ pc = "config"
    /\ tx = None
    /\ returned = None
    /\ error = None
    /\ dry_run_calls = <<>>
    /\ dry_run_responses = <<>>
    /\ panicked = FALSE
    /\ storage_slots = <<>>
    /\ slots_given = <<>>
    /\ resolution = None
    /\ estimation_exits = <<>>
    /\ probe_snapshot = None
    /\ probe_results = <<>>

NextGas ==
    \/ \E input \in DeclarativeInputs : PushInput(input)
    \/ BuildScript
    \/ \E gas_used \in GasUsed : DryRunOk(gas_used)
    \/ \E e \in ProviderErrors : DryRunErr(e)

SpecGas == InitGas /\ [][NextGas]_vars

----------------------------------------------------------------------------
(* Properties *)

Built == IsSome(returned)
BuiltTx == Unwrap(returned).tx

\* the registered addresses, from the calls of add_unresolved_signature
RegisteredOwners == {registrations[i].owner : i \in 1..Len(registrations)}

\* zero-based index of the last call that registered address a
RegistryIndex(a) ==
    (CHOOSE i \in 1..Len(registrations) :
        /\ registrations[i].owner = a
        /\ \A j \in (i + 1)..Len(registrations) : registrations[j].owner # a)
    - 1

IsSigned(input) == input.variant = "ResourceSigned"
\* the owner of a coin, the recipient of a message
SignerOf(input) ==
    IF input.resource.type = "Coin"
    THEN input.resource.owner ELSE input.resource.recipient

SignedVariants == {"CoinSigned", "MessageCoinSigned", "MessageDataSigned"}
PredicateVariants ==
    {"CoinPredicate", "MessageCoinPredicate", "MessageDataPredicate"}
NativeSigner(n) == IF n.variant = "CoinSigned" THEN n.owner ELSE n.recipient

\* C1: in the transaction a build returns, every signed coin or message input
\* carries the witness index (number of explicit witnesses) + (index at which
\* its owner / recipient was registered), and signed inputs of the same
\* address carry the same witness index.
C1_WitnessIndexOfSignedInputs ==
    Built =>
        /\ \A i \in 1..Len(BuiltTx.inputs) :
              BuiltTx.inputs[i].variant \in SignedVariants =>
                  BuiltTx.inputs[i].witness_index =
                      Len(witnesses) + RegistryIndex(NativeSigner(BuiltTx.inputs[i]))
        /\ \A i, j \in 1..Len(BuiltTx.inputs) :
              /\ BuiltTx.inputs[i].variant \in SignedVariants
              /\ BuiltTx.inputs[j].variant \in SignedVariants
              /\ NativeSigner(BuiltTx.inputs[i]) = NativeSigner(BuiltTx.inputs[j])
              => BuiltTx.inputs[i].witness_index = BuiltTx.inputs[j].witness_index

\* a build with explicit witnesses returned a coin and a message of the same
\* address, which was registered second
C1_Witness ==
    /\ Built
    /\ Len(witnesses) = 2
    /\ Len(registrations) = 2
    /\ registrations[2].owner = "a1"
    /\ Len(BuiltTx.inputs) = 2
    /\ BuiltTx.inputs[1].variant = "CoinSigned"
    /\ BuiltTx.inputs[2].variant = "MessageCoinSigned"
    /\ BuiltTx.inputs[2].witness_index = 3

\* C2: the witnesses of a returned transaction are the explicit witnesses in
\* their order, followed by one signature of the transaction id per registered
\* secret key, in the order of registration; no placeholder of the dry run
\* remains.
C2_FinalWitnessList ==
    Built =>
        /\ BuiltTx.witnesses =
              witnesses \o
              [i \in 1..Len(registrations) |->
                  SignatureSign(registrations[i].secret_key,
                                TxId(BuiltTx, network_info.chain_id))]
        /\ Len(BuiltTx.witnesses) = Len(witnesses) + Len(registrations)
        /\ \A i \in 1..Len(BuiltTx.witnesses) :
              BuiltTx.witnesses[i] # DefaultWitness

\* a script build that went through the dry run, with two explicit witnesses
\* and two different keys
C2_Witness ==
    /\ Built
    /\ kind = "script"
    /\ Len(dry_run_calls) = 1
    /\ witnesses = <<Witness("wA"), Witness("wB")>>
    /\ Len(registrations) = 2
    /\ registrations[1].secret_key = "k2"
    /\ registrations[2].secret_key = "k1"

\* C3 as claimed: with an explicit gas limit the dry runner is never invoked
\* and the returned transaction carries exactly that limit, whatever the
\* script is.
C3_ExplicitGasLimitAlwaysWins ==
    (kind = "script" /\ IsSome(gas_limit)) =>
        /\ dry_run_calls = <<>>
        /\ Built => BuiltTx.script_gas_limit = Unwrap(gas_limit)

\* C3 amended: with an explicit gas limit the dry runner is never invoked, and
\* the returned transaction carries exactly that limit when the script is not
\* empty; when the script is empty it carries zero.
C3_ExplicitGasLimit ==
    (kind = "script" /\ IsSome(gas_limit)) =>
        /\ dry_run_calls = <<>>
        /\ (Built /\ script # <<>>) =>
               BuiltTx.script_gas_limit = Unwrap(gas_limit)
        /\ (Built /\ script = <<>>) => BuiltTx.script_gas_limit = 0

\* a script with code was built with an explicit gas limit
C3_Witness ==
    /\ Built
    /\ kind = "script"
    /\ script # <<>>
    /\ gas_limit = Some(7)
    /\ BuiltTx.script_gas_limit = 7

\* C4: a script build with an empty script never invokes the dry runner and
\* returns a transaction whose script gas limit is zero.
C4_EmptyScriptGasLimitZero ==
    (kind = "script" /\ script = <<>>) =>
        /\ dry_run_calls = <<>>
        /\ Built => BuiltTx.script_gas_limit = 0

\* an empty script was built although a gas limit was set
C4_Witness ==
    /\ Built
    /\ kind = "script"
    /\ script = <<>>
    /\ gas_limit = Some(7)

\* the build got past the witness count and the resolution of its inputs
ReachesGasLimitBranch ==
    /\ Len(witnesses) + Len(registrations) <= MAX_WITNESSES
    /\ \A i \in 1..Len(inputs) :
          IsSigned(inputs[i]) => SignerOf(inputs[i]) \in RegisteredOwners

\* C5: a script build with code and without an explicit gas limit invokes the
\* dry runner, and the transaction it returns carries the gas usage the dry
\* runner answered, not the provisional limit of the dry run.
C5_GasLimitIsGasUsed ==
    (kind = "script" /\ script # <<>> /\ gas_limit = None) =>
        /\ (pc = "done" /\ ReachesGasLimitBranch /\ ~panicked) =>
               Len(dry_run_calls) = 1
        /\ Built =>
               /\ Len(dry_run_calls) = 1
               /\ Len(dry_run_responses) = 1
               /\ dry_run_responses[1].ok
               /\ BuiltTx.script_gas_limit = dry_run_responses[1].gas_used
               /\ BuiltTx.script_gas_limit # dry_run_calls[1].script_gas_limit

\* the dry runner answered 9 and the build returned
C5_Witness ==
    /\ Built
    /\ kind = "script"
    /\ Len(dry_run_responses) = 1
    /\ dry_run_responses[1].gas_used = 9
    /\ BuiltTx.script_gas_limit = 9

\* the native input n is the resolution of the declarative input d
ResolutionOf(d, n) ==
    /\ d.variant = "ResourceSigned" =>
          /\ n.variant \in SignedVariants
          /\ NativeSigner(n) = SignerOf(d)
          /\ n.data = d.resource.data
    /\ d.variant = "ResourcePredicate" =>
          /\ n.variant \in PredicateVariants
          /\ n.predicate = d.code
          /\ Len(n.predicate_data) = Len(d.data)
    /\ d.variant = "Contract" => n.variant = "Contract"
    /\ n.amount = d.resource.amount

\* C6: a returned transaction has as many inputs as the builder, the i-th the
\* resolution of the builder's i-th input; the temporary coin of the dry run
\* is not among them.
C6_InputsMatchDeclaredInputs ==
    Built =>
        /\ Len(BuiltTx.inputs) = Len(inputs)
        /\ \A i \in 1..Len(inputs) : ResolutionOf(inputs[i], BuiltTx.inputs[i])
        /\ \A i \in 1..Len(BuiltTx.inputs) : BuiltTx.inputs[i] # DryRunCoin

\* a build that went through the dry run returned a predicate and a contract
C6_Witness ==
    /\ Built
    /\ Len(dry_run_calls) = 1
    /\ Len(dry_run_calls[1].inputs) = 3
    /\ Len(inputs) = 2
    /\ inputs[1].variant = "ResourcePredicate"
    /\ inputs[2].variant = "Contract"

\* C7: when the owner of a signed coin or the recipient of a signed message
\* was never registered, build fails with an error and returns no transaction.
C7_MissingSignatureFails ==
    (pc = "done" /\ \E i \in 1..Len(inputs) :
                        /\ IsSigned(inputs[i])
                        /\ SignerOf(inputs[i]) \notin RegisteredOwners)
    => (returned = None /\ IsSome(error))

\* the second input is a message whose recipient is not registered, the first
\* a coin whose owner is
C7_Witness ==
    /\ pc = "done"
    /\ Len(inputs) = 2
    /\ inputs[1] = ResourceSigned(Coin("a1"))
    /\ inputs[2] = ResourceSigned(Message("a2", <<42>>))
    /\ RegisteredOwners = {"a1"}
    /\ error = Some(ErrMissingMessage)

\* C8: build fails with the error of num_witnesses exactly when the explicit
\* witnesses and the registered keys are more than 256 together.
C8_TooManyWitnessesExactly ==
    pc = "done" =>
        (error = Some(ErrTooManyWitnesses)
            <=> Len(witnesses) + Len(registrations) > MAX_WITNESSES)

\* 257 witnesses in all: the build failed
C8_Witness ==
    /\ pc = "done"
    /\ Len(witnesses) + Len(registrations) = MAX_WITNESSES + 1
    /\ Len(registrations) > 0
    /\ error = Some(ErrTooManyWitnesses)

\* C9 as claimed: every index of secret_keys is the value of exactly one
\* address of addr_idx_offset_map.
C9_RegistryIsBijection ==
    \A i \in 0..(Len(unresolved_signatures.secret_keys) - 1) :
        Cardinality({a \in DOMAIN unresolved_signatures.addr_idx_offset_map :
                        unresolved_signatures.addr_idx_offset_map[a] = i}) = 1

\* C10: the dry runner is invoked at most once in a build, and when it answers
\* an error, build returns that error and no transaction.
C10_DryRunOnceErrorPropagates ==
    /\ Len(dry_run_calls) <= 1
    /\ Len(dry_run_responses) <= Len(dry_run_calls)
    /\ \A i \in 1..Len(dry_run_responses) :
          ~dry_run_responses[i].ok =>
              /\ pc = "done"
              /\ error = Some(dry_run_responses[i].err)
              /\ returned = None

\* the dry runner answered an error
C10_Witness ==
    /\ pc = "done"
    /\ Len(dry_run_calls) = 1
    /\ Len(dry_run_responses) = 1
    /\ ~dry_run_responses[1].ok
    /\ error = Some("provider error")

----------------------------------------------------------------------------
(* C11 *)

\* the number of times x occurs in seq
Count(seq, x) == Cardinality({i \in 1..Len(seq) : seq[i] = x})

IsPermutation(a, b) ==
    /\ Len(a) = Len(b)
    /\ \A i \in 1..Len(a) : Count(a, a[i]) = Count(b, a[i])

SortedByKey(slots) ==
    \A i \in 1..Len(slots), j \in 1..Len(slots) :
        i < j => slots[i].key <= slots[j].key

\* C11: the storage_slots of the create builder are a permutation of the list
\* last given to with_storage_slots, in non-decreasing key order, and a built
\* create transaction carries exactly that sorted list.
C11_StorageSlotsSorted ==
    /\ IsPermutation(storage_slots, slots_given)
    /\ SortedByKey(storage_slots)
    /\ Built =>
          /\ BuiltTx.storage_slots = storage_slots
          /\ SortedByKey(BuiltTx.storage_slots)
          /\ IsPermutation(BuiltTx.storage_slots, slots_given)

\* with_storage_slots([slot(2), slot(1)]) and then build
C11_Witness ==
    /\ slots_given = <<StorageSlot(2, 0), StorageSlot(1, 0)>>
    /\ Built
    /\ BuiltTx.storage_slots = <<StorageSlot(1, 0), StorageSlot(2, 0)>>

----------------------------------------------------------------------------
(* C12 *)

IsMessage(input) ==
    /\ input.variant \in {"ResourceSigned", "ResourcePredicate"}
    /\ input.resource.type = "Message"

\* C12: in a returned transaction the native input of a message resource is
\* the coin-like variant (MessageCoinSigned, MessageCoinPredicate) exactly when
\* the data of the message is empty, and the data-bearing variant
\* (MessageDataSigned, MessageDataPredicate) exactly when it is not.
C12_MessageVariantByPayload ==
    Built =>
        \A i \in 1..Len(inputs) :
            IsMessage(inputs[i]) =>
                LET empty == Len(inputs[i].resource.data) = 0
                    native == BuiltTx.inputs[i].variant
                IN IF IsSigned(inputs[i])
                   THEN /\ (native = "MessageCoinSigned") <=> empty
                        /\ (native = "MessageDataSigned") <=> ~empty
                   ELSE /\ (native = "MessageCoinPredicate") <=> empty
                        /\ (native = "MessageDataPredicate") <=> ~empty

\* a signed message without data and a predicate message with data are built
C12_Witness ==
    /\ Built
    /\ Len(inputs) = 2
    /\ IsSigned(inputs[1]) /\ IsMessage(inputs[1])
    /\ inputs[1].resource.data = <<>>
    /\ ~IsSigned(inputs[2]) /\ IsMessage(inputs[2])
    /\ inputs[2].resource.data # <<>>
    /\ BuiltTx.inputs[1].variant = "MessageCoinSigned"
    /\ BuiltTx.inputs[2].variant = "MessageDataPredicate"

----------------------------------------------------------------------------
(* C13 *)

----------------------------------------------------------------------------
(* C14 *)

\* the positions of the ResourcePredicate inputs of the builder
PredicatePositions ==
    {i \in 1..Len(inputs) : inputs[i].variant = "ResourcePredicate"}

\* C14: the is_using_predicates tag of a returned transaction, script or
\* create, is true exactly when at least one declarative input of the builder
\* is a ResourcePredicate.
C14_PredicateTag ==
    Built =>
        (Unwrap(returned).is_using_predicates
            <=> Cardinality(PredicatePositions) >= 1)

\* a returned transaction whose only predicate is its second input
C14_Witness ==
    /\ Built
    /\ PredicatePositions = {2}
    /\ Unwrap(returned).is_using_predicates

----------------------------------------------------------------------------
(* C16 *)

\* the header of a predicate input: what precedes its predicate data
PredicateHeader(input) ==
    IF input.resource.type = "Coin"
    THEN CoinPredicateDataOffset(Len(input.code))
    ELSE MessagePredicateDataOffset(Len(input.resource.data), Len(input.code))

\* the serialized size of a declarative input
SerializedSize(input) ==
    CASE input.variant = "Contract" -> ContractInputOffset
      [] input.variant = "ResourceSigned" /\ input.resource.type = "Coin" ->
            CoinSignedDataOffset
      [] input.variant = "ResourceSigned" /\ input.resource.type = "Message" ->
            MessageSignedDataOffset(Len(input.resource.data))
      [] OTHER ->
            PredicateHeader(input) + Len(UnresolvedBytesResolve(input.data, 0))

\* the serialized size of the first n inputs of the builder
RECURSIVE SizeOfPrefix(_)
SizeOfPrefix(n) ==
    IF n = 0 THEN 0 ELSE SizeOfPrefix(n - 1) + SerializedSize(inputs[n])

\* C16: resolve_fuel_inputs resolves the data of the predicate at position k
\* once, with the starting offset plus the serialized sizes of the inputs
\* before it plus its own header, and then advances the accumulator by the
\* length of the resolved data; the data of no other input is resolved, and
\* the returned transaction carries the data resolved at that offset.
C16_PredicateDataOffset ==
    IsSome(resolution) =>
        LET trace == Unwrap(resolution)
        IN \A k \in 1..Len(trace) :
              IF inputs[k].variant = "ResourcePredicate"
              THEN LET offset == trace[1].before + SizeOfPrefix(k - 1)
                                     + PredicateHeader(inputs[k])
                       resolved ==
                           UnresolvedBytesResolve(inputs[k].data, offset)
                   IN /\ trace[k].resolves = <<offset>>
                      /\ trace[k].after = offset + Len(resolved)
                      /\ Built =>
                            BuiltTx.inputs[k].predicate_data = resolved
              ELSE trace[k].resolves = <<>>

\* a returned transaction whose second input is a predicate with a pointer
\* in its data, behind an input of payload-dependent size
C16_Witness ==
    /\ Built
    /\ IsSome(resolution)
    /\ Len(inputs) = 2
    /\ inputs[1].resource.data # <<>>
    /\ inputs[2].variant = "ResourcePredicate"
    /\ \E i \in 1..Len(inputs[2].data) : inputs[2].data[i] = POINTER
    /\ Len(Unwrap(resolution)[2].resolves) = 1

----------------------------------------------------------------------------
(* C17 *)

\* the native inputs that a fee can be paid from
SpendableVariants ==
    {"CoinSigned", "CoinPredicate", "MessageCoinSigned",
     "MessageCoinPredicate"}

HasSpendableInput(ins) ==
    \E i \in 1..Len(ins) :
        ins[i].variant \in SpendableVariants /\ ins[i].amount > 0

\* C17: the transaction handed to the dry runner has the temporary coin
\* appended only when its resolved inputs hold no spendable input; one that
\* holds a spendable input is handed over with its inputs unchanged.
C17_FundingCoinOnlyWhenNeeded ==
    \A c \in 1..Len(dry_run_calls) :
        LET handed == dry_run_calls[c].inputs
            resolved == SubSeq(handed, 1, Len(inputs))
        IN IF HasSpendableInput(resolved)
           THEN handed = resolved
           ELSE handed = Append(resolved, DryRunCoin)

----------------------------------------------------------------------------
(* C18 *)

\* C18: the transaction handed to the dry runner carries only default
\* witnesses, as many as the returned transaction has witnesses: the explicit
\* witnesses plus the registered secret keys, or one when there are none.
C18_DryRunPlaceholderWitnesses ==
    \A c \in 1..Len(dry_run_calls) :
        LET placeholders == dry_run_calls[c].witnesses
        IN /\ \A i \in 1..Len(placeholders) :
                 placeholders[i] = DefaultWitness
           /\ Len(placeholders) =
                 Max(Len(witnesses) + Len(registrations), 1)

----------------------------------------------------------------------------
(* C19 *)

\* C19: every generated witness of a returned transaction signs the id of
\* that transaction as it is returned: the signed id carries the final script
\* gas limit (the gas used of the dry run when there was one) and the resolved
\* inputs without the temporary coin, and it is the id of the transaction
\* with the placeholder witnesses in place of the final ones.
C19_SignaturesOverReturnedId ==
    Built =>
        \A i \in 1..Len(BuiltTx.witnesses) :
            BuiltTx.witnesses[i].tag = "signature" =>
                LET digest == BuiltTx.witnesses[i].msg[1]
                    placeholders ==
                        CreateDryRunWitnesses(AsU8(Len(witnesses)),
                                              unresolved_signatures)
                IN /\ digest = TxId(BuiltTx, network_info.chain_id)
                   /\ digest.script_gas_limit = BuiltTx.script_gas_limit
                   /\ Len(dry_run_responses) > 0 =>
                         digest.script_gas_limit =
                             dry_run_responses[Len(dry_run_responses)].gas_used
                   /\ Len(digest.inputs) = Len(inputs)
                   /\ \A j \in 1..Len(digest.inputs) :
                         digest.inputs[j] # DryRunCoin
                   /\ digest = TxId([BuiltTx EXCEPT !.witnesses = placeholders],
                                    network_info.chain_id)

\* a script transaction returned after a dry run, with a generated witness
C19_Witness ==
    /\ Built
    /\ kind = "script"
    /\ Len(dry_run_responses) = 1
    /\ BuiltTx.script_gas_limit = 9
    /\ Len(inputs) > 0
    /\ \E i \in 1..Len(BuiltTx.witnesses) :
          BuiltTx.witnesses[i].tag = "signature"

----------------------------------------------------------------------------
(* C20 *)

OverWitnessLimit == Len(witnesses) + Len(registrations) > MAX_WITNESSES

\* a signed input of the builder whose address has no registered key
HasUnsignedInput ==
    \E i \in 1..Len(inputs) :
        IsSigned(inputs[i]) /\ SignerOf(inputs[i]) \notin RegisteredOwners

\* C20: a build of a builder with more than 256 explicit witnesses and
\* registered keys returns the over-limit error, also when a signature is
\* missing, and it has not run resolve_fuel_inputs: no predicate data was
\* resolved, no address was looked up and the dry runner was not called.
C20_WitnessLimitBeforeResolution ==
    (pc = "done" /\ OverWitnessLimit) =>
        /\ error = Some(ErrTooManyWitnesses)
        /\ returned = None
        /\ resolution = None
        /\ dry_run_calls = <<>>

\* the over-limit error of a builder that also misses a signature and has a
\* predicate input
C20_Witness ==
    /\ pc = "done"
    /\ OverWitnessLimit
    /\ HasUnsignedInput
    /\ PredicatePositions # {}
    /\ error = Some(ErrTooManyWitnesses)

----------------------------------------------------------------------------
(* C21 *)

\* A u64 that wrapped around is written x - 2^64 (ProvisionalGasLimit), so a
\* value that did not wrap is one that is not negative.

\* the computation of the provisional limit neither aborted nor wrapped
ProvisionalLimitComputed ==
    /\ ~panicked
    /\ \A c \in 1..Len(dry_run_calls) :
          dry_run_calls[c].script_gas_limit >= 0

\* C21: computing the provisional script gas limit never aborts and never
\* wraps around, and the transaction handed to the dry runner carries
\* ((max_gas_per_tx / 2) - max_gas of the transaction) + 1.
C21_ProvisionalGasLimit ==
    /\ ProvisionalLimitComputed
    /\ \A c \in 1..Len(dry_run_calls) :
          LET handed == dry_run_calls[c]
              overhead == TxMaxGas(PopInput(handed))
          IN handed.script_gas_limit =
                 ((network_info.max_gas_per_tx \div 2) - overhead) + 1

----------------------------------------------------------------------------
(* C22 *)

\* C22: whenever set_script_gas_limit_to_gas_used has returned, with Ok or
\* with the error of the dry runner, the temporary coin is no longer in the
\* transaction it worked on: its inputs are the resolved inputs of the
\* builder.
C22_FundingCoinRemovedOnEveryExit ==
    \A x \in 1..Len(estimation_exits) :
        LET left == estimation_exits[x].inputs
        IN /\ Len(left) = Len(inputs)
           /\ \A i \in 1..Len(left) : left[i] # DryRunCoin

----------------------------------------------------------------------------
(* C23 *)

\* C23: while resolve_fuel_inputs runs, the accumulator after an input is at
\* least what it was before that input, whatever the kind of the input, each
\* input starts where the one before it ended, and resolving the inputs of
\* the builder again from the same starting offset gives the same offsets.
C23_OffsetsNeverDecrease ==
    IsSome(resolution) =>
        LET trace == Unwrap(resolution)
            num_witnesses == NumWitnesses(witnesses, unresolved_signatures)
        IN /\ \A k \in 1..Len(trace) : trace[k].after >= trace[k].before
           /\ \A k \in 1..(Len(trace) - 1) :
                 trace[k + 1].before = trace[k].after
           /\ Len(trace) > 0 =>
                 ResolveFuelInputs(inputs, trace[1].before,
                                   num_witnesses.value,
                                   unresolved_signatures).trace = trace

\* a signed coin resolved behind a predicate, each advancing the accumulator
C23_Witness ==
    /\ Built
    /\ IsSome(resolution)
    /\ Len(inputs) = 2
    /\ inputs[1].variant = "ResourcePredicate"
    /\ IsSigned(inputs[2])
    /\ Unwrap(resolution)[1].after > Unwrap(resolution)[1].before
    /\ Unwrap(resolution)[2].after > Unwrap(resolution)[2].before

----------------------------------------------------------------------------
(* C24 *)

\* the secret key of the last add_unresolved_signature call for address a
LastRegisteredKey(a) == registrations[RegistryIndex(a) + 1].secret_key

\* C24: in a returned transaction the witness at the witness index of a
\* signed coin or message is the signature of the id of that transaction
\* made with the key most recently registered for its owner or recipient,
\* also when the address was registered more than once and when there are
\* explicit witnesses.
C24_WitnessAtIndexSignsWithLastKey ==
    Built =>
        \A i \in 1..Len(inputs) :
            IsSigned(inputs[i]) =>
                LET index == BuiltTx.inputs[i].witness_index
                    key == LastRegisteredKey(SignerOf(inputs[i]))
                IN /\ index + 1 \in 1..Len(BuiltTx.witnesses)
                   /\ BuiltTx.witnesses[index + 1] =
                         SignatureSign(key,
                                       TxId(BuiltTx, network_info.chain_id))

\* a1 registered with k1 and then with k2, two explicit witnesses, and a
\* signed input of a1 in the returned transaction
C24_Witness ==
    /\ Built
    /\ witnesses = <<Witness("wA"), Witness("wB")>>
    /\ registrations = <<[owner |-> "a1", secret_key |-> "k1"],
                         [owner |-> "a1", secret_key |-> "k2"]>>
    /\ \E i \in 1..Len(inputs) : IsSigned(inputs[i])
    /\ BuiltTx.witnesses[4].key = "k2"

----------------------------------------------------------------------------
(* C25 *)

\* the errors of num_witnesses and of resolve_signed_resource
CountOrSignatureErrors ==
    {Some(ErrTooManyWitnesses), Some(ErrMissingCoin), Some(ErrMissingMessage)}

\* resolve_fuel_inputs went through every input of the builder
EveryInputResolved ==
    /\ IsSome(resolution)
    /\ Len(Unwrap(resolution)) = Len(inputs)
    /\ ~HasUnsignedInput

\* C25: in a script build the dry runner is called only when the witness
\* count was within the limit and every input was resolved; a build that
\* fails with the over-limit error or with a missing-signature error has
\* made no dry-run call.
C25_DryRunOnlyAfterCountAndResolution ==
    /\ error \in CountOrSignatureErrors => dry_run_calls = <<>>
    /\ dry_run_calls # <<>> =>
          /\ kind = "script"
          /\ ~OverWitnessLimit
          /\ EveryInputResolved

\* a script with code and without a gas limit, which would be estimated,
\* failed on a missing signature after its first input was resolved
C25_Witness ==
    /\ kind = "script"
    /\ script # <<>>
    /\ gas_limit = None
    /\ error \in {Some(ErrMissingCoin), Some(ErrMissingMessage)}
    /\ IsSome(resolution)
    /\ Len(Unwrap(resolution)) = 2
    /\ dry_run_calls = <<>>

----------------------------------------------------------------------------
(* C26 *)

\* a build was called and num_witnesses did not return its error
BuildPassedWitnessCheck == pc # "config" /\ ~OverWitnessLimit

\* C26: in a build that passes the check of num_witnesses the u8 handed to
\* resolve_fuel_inputs and to create_dry_run_witnesses is the number of
\* explicit witnesses, and the witness index computed for a signed input
\* is (explicit witnesses + index in the registry) without wrapping, at
\* most 255.
C26_WitnessArithmeticLosesNothing ==
    BuildPassedWitnessCheck =>
        LET handed == NumWitnesses(witnesses, unresolved_signatures).value
            map == unresolved_signatures.addr_idx_offset_map
        IN /\ handed = Len(witnesses)
           /\ \A a \in DOMAIN map :
                 /\ WitnessIndex(handed, map[a]) = Len(witnesses) + map[a]
                 /\ WitnessIndex(handed, map[a]) <= U8_MODULUS - 1

\* the half of C26 on the witness indices: they are computed only with a
\* registered key, and then the explicit witnesses are at most 255
C26_WitnessIndexDoesNotWrap ==
    BuildPassedWitnessCheck =>
        LET handed == NumWitnesses(witnesses, unresolved_signatures).value
            map == unresolved_signatures.addr_idx_offset_map
        IN \A a \in DOMAIN map :
              /\ WitnessIndex(handed, map[a]) = Len(witnesses) + map[a]
              /\ WitnessIndex(handed, map[a]) <= U8_MODULUS - 1

====
